---- MODULE Spec2Model ----
(***************************************************************************)
(* Model of scripts/generate-lockfile.py: the two-phase lockfile generator *)
(* for sbt projects.  Strings are sequences of one-character strings, so   *)
(* that joins, suffix tests, replacements and orderings are computed and   *)
(* not assumed.                                                            *)
(***************************************************************************)
EXTENDS Integers, Sequences, FiniteSets, TLC

VARIABLES
    pc,         \* position of main() / generate_lockfile
    doc,        \* the JSON document read by Config.load
    config,     \* the Config object returned by Config.load
    keep_temp,  \* --keep-temp
    dry_run,    \* --dry-run
    environ,    \* os.environ of the invoking process
    sandbox,    \* the temporary home: "none", "exists" or "removed"
    targets,    \* which of target/ and project/target/ exist in the project
    spawned,    \* every subprocess.run call so far, with its exit status
    cache,      \* files under the coursier cache directory
    ivy,        \* the legacy cache <home>/.ivy2/cache: whether it exists, its files
    lockfile,   \* the value generate_lockfile returned
    outfile,    \* writes made to the output lockfile
    stdout,     \* writes made to sys.stdout
    error,      \* the exception that ended the run, or "none"
    todo,       \* what the loop being run has left to do
    bridges,    \* the list find_compiler_bridges returned
    scans,      \* traversal orders rglob produced, one per pipeline run
    manifests,  \* the manifest each pipeline run returned
    digest,     \* input of _nix_base32
    encoded,    \* output of _nix_base32
    arg,        \* one argument of a configured shell command line
    expanded    \* the argument as handed to subprocess.run

vars == <<pc, doc, config, keep_temp, dry_run, environ, sandbox, targets,
          spawned, cache, ivy, lockfile, outfile, stdout, error, todo,
          bridges, scans, manifests, digest, encoded, arg, expanded>>

mainVars == <<pc, doc, config, keep_temp, dry_run, sandbox, targets, spawned,
              ivy, lockfile, outfile, stdout, error, todo, bridges>>

(***************************************************************************)
(* Bounds of the model.                                                    *)
(***************************************************************************)
MaxDigestBytes == 2
\* Files in the cache when the pipeline alone is run.
MaxFiles == 3
\* Pieces a shell command argument is put together from.
MaxPieces == 2
\* Shell command lines, sbt runs and classifiers of a configuration.
MaxShell == 2
MaxRuns == 2
MaxClassifiers == 1

None == "None"
\* No Config, no lockfile yet.
NoRecord == [none |-> TRUE]
\* No <home>/.ivy2/cache.
IvyAbsent == [exists |-> FALSE, files |-> {}]

(***************************************************************************)
(* Characters and strings.                                                 *)
(***************************************************************************)
\* The characters the model uses, in ASCII order.
Ascii ==
    <<" ", "$", "-", ".", "/", "0", "1", "2", "3", "4", "5", "6", "7", "8",
      "9", ":", "=", "A", "B", "C", "D", "E", "F", "G", "H", "I", "J", "K",
      "L", "M", "N", "O", "P", "Q", "R", "S", "T", "U", "V", "W", "X", "Y",
      "Z", "_", "a", "b", "c", "d", "e", "f", "g", "h", "i", "j", "k", "l",
      "m", "n", "o", "p", "q", "r", "s", "t", "u", "v", "w", "x", "y", "z",
      "{", "}">>

Ord(c) == CHOOSE i \in 1..Len(Ascii) : Ascii[i] = c

\* Python's str < str: the first differing character decides, a proper
\* prefix is smaller.
RECURSIVE StrLess(_, _)
StrLess(s, t) ==
    IF t = <<>> THEN FALSE
    ELSE IF s = <<>> THEN TRUE
    ELSE IF Head(s) = Head(t) THEN StrLess(Tail(s), Tail(t))
    ELSE Ord(Head(s)) < Ord(Head(t))

\* sep.join(parts)
RECURSIVE Join(_, _)
Join(sep, parts) ==
    IF parts = <<>> THEN <<>>
    ELSE IF Len(parts) = 1 THEN parts[1]
    ELSE parts[1] \o sep \o Join(sep, Tail(parts))

StartsWith(s, p) == Len(s) >= Len(p) /\ SubSeq(s, 1, Len(p)) = p

EndsWith(s, p) == Len(s) >= Len(p) /\ SubSeq(s, Len(s) - Len(p) + 1, Len(s)) = p

Drop(s, n) == SubSeq(s, n + 1, Len(s))

\* str.replace(old, new): leftmost non-overlapping occurrences.
RECURSIVE Replace(_, _, _)
Replace(s, old, new) ==
    IF s = <<>> THEN <<>>
    ELSE IF StartsWith(s, old) THEN new \o Replace(Drop(s, Len(old)), old, new)
    ELSE <<Head(s)>> \o Replace(Tail(s), old, new)

RECURSIVE Reversed(_)
Reversed(s) == IF s = <<>> THEN <<>> ELSE Reversed(Tail(s)) \o <<Head(s)>>

\* str.rjust(width, fill)
RECURSIVE RJust(_, _, _)
RJust(s, width, fill) ==
    IF Len(s) >= width THEN s ELSE RJust(<<fill>> \o s, width, fill)

(***************************************************************************)
(* Digest Encoder: _nix_base32.                                            *)
(***************************************************************************)
NIX_BASE32_ALPHABET ==
    <<"0", "1", "2", "3", "4", "5", "6", "7", "8", "9", "a", "b", "c", "d",
      "f", "g", "h", "i", "j", "k", "l", "m", "n", "p", "q", "r", "s", "v",
      "w", "x", "y", "z">>

\* int.from_bytes(digest, "little")
RECURSIVE FromBytesLittle(_)
FromBytesLittle(bytes) ==
    IF bytes = <<>> THEN 0 ELSE Head(bytes) + 256 * FromBytesLittle(Tail(bytes))

\* The while loop: least significant digit first.
RECURSIVE EncodedReversed(_)
EncodedReversed(value) ==
    IF value > 0
    THEN <<NIX_BASE32_ALPHABET[(value % 32) + 1]>> \o EncodedReversed(value \div 32)
    ELSE <<>>

\* A plausible slip: the padding dropped.
NixBase32NoPad(bytes) == Reversed(EncodedReversed(FromBytesLittle(bytes)))

nix_base32(bytes) ==
    LET value == FromBytesLittle(bytes)
        target_length == (Len(bytes) * 8 + 4) \div 5
    IN  RJust(Reversed(EncodedReversed(value)), target_length, NIX_BASE32_ALPHABET[1])

\* Byte values the digests of the model are built from: every bit position of
\* a byte is set in one and clear in another.
ByteSamples == {0, 1, 31, 32, 85, 128, 170, 255}

RECURSIVE BytesOfLen(_)
BytesOfLen(n) ==
    IF n = 0 THEN {<<>>}
    ELSE {<<b>> \o r : b \in ByteSamples, r \in BytesOfLen(n - 1)}

Digests == UNION {BytesOfLen(n) : n \in 0..MaxDigestBytes}

(***************************************************************************)
(* The cache on disk.  A file is its path relative to the cache directory  *)
(* (a sequence of segments) and the SHA-256 of its bytes.                  *)
(***************************************************************************)
s_cache == <<"c", "a", "c", "h", "e">>
s_https == <<"h", "t", "t", "p", "s">>
s_host == <<"r">>
s_host2 == <<"r", "-", "x">>
s_a_jar == <<"a", ".", "j", "a", "r">>
s_b_pom == <<"b", ".", "p", "o", "m">>
s_i_xml == <<"i", ".", "x", "m", "l">>
s_n_txt == <<"n", ".", "t", "x", "t">>
s_dot_jar == <<".", "j", "a", "r">>
s_dot_pom == <<".", "p", "o", "m">>
s_dot_xml == <<".", "x", "m", "l">>

File(path, sha) == [path |-> path, sha |-> sha]

\* PurePath.__lt__: the parts compared as a list of strings.
RECURSIVE PathLess(_, _)
PathLess(p, q) ==
    IF q = <<>> THEN FALSE
    ELSE IF p = <<>> THEN TRUE
    ELSE IF Head(p) = Head(q) THEN PathLess(Tail(p), Tail(q))
    ELSE StrLess(Head(p), Head(q))

\* PurePath.suffix of the final component.
RECURSIVE RFindDot(_, _)
RFindDot(name, i) ==
    IF i = 0 THEN 0 ELSE IF name[i] = "." THEN i ELSE RFindDot(name, i - 1)

Suffix(path) ==
    LET name == path[Len(path)]
        i == RFindDot(name, Len(name))
    IN  IF 1 < i /\ i < Len(name) THEN SubSeq(name, i, Len(name)) ELSE <<>>

ArtifactSuffixes == {s_dot_jar, s_dot_pom, s_dot_xml}

\* The files of `files` below the directory `dir`, in the order rglob meets
\* them when the tree is walked in the order `walk`.
RECURSIVE Rglob(_, _)
Rglob(dir, walk) ==
    IF walk = <<>> THEN <<>>
    ELSE IF Len(Head(walk).path) > Len(dir) /\ StartsWith(Head(walk).path, dir)
         THEN <<Head(walk)>> \o Rglob(dir, Tail(walk))
         ELSE Rglob(dir, Tail(walk))

RECURSIVE SelectArtifacts(_)
SelectArtifacts(found) ==
    IF found = <<>> THEN <<>>
    ELSE IF Suffix(Head(found).path) \in ArtifactSuffixes
         THEN <<Head(found)>> \o SelectArtifacts(Tail(found))
         ELSE SelectArtifacts(Tail(found))

\* sorted(artifacts): stable, by path.
RECURSIVE InsertByPath(_, _)
InsertByPath(f, sorted) ==
    IF sorted = <<>> THEN <<f>>
    ELSE IF PathLess(f.path, Head(sorted).path) THEN <<f>> \o sorted
    ELSE <<Head(sorted)>> \o InsertByPath(f, Tail(sorted))

RECURSIVE SortedByPath(_)
SortedByPath(fs) ==
    IF fs = <<>> THEN <<>>
    ELSE InsertByPath(fs[Len(fs)], SortedByPath(SubSeq(fs, 1, Len(fs) - 1)))

\* A plausible slip: one walk of the whole cache directory, its artifacts
\* returned in the order they were met.
FindCoursierArtifactsOneWalk(walk) == SelectArtifacts(Rglob(<<>>, walk))

find_coursier_artifacts(walk) ==
    SortedByPath(SelectArtifacts(Rglob(<<s_cache, s_https>>, walk))
                    \o SelectArtifacts(Rglob(<<s_https>>, walk)))

(***************************************************************************)
(* Cache Path Resolver: path_to_url.                                       *)
(***************************************************************************)
\* tuple.index(x): the first position holding x, 0 for ValueError.
RECURSIVE Index(_, _, _)
Index(parts, x, i) ==
    IF i > Len(parts) THEN 0
    ELSE IF parts[i] = x THEN i ELSE Index(parts, x, i + 1)

UrlPrefix == <<"h", "t", "t", "p", "s", ":", "/", "/">>

path_to_url(path) ==
    LET https_idx == Index(path, s_https, 1)
    IN  IF https_idx = 0 THEN None
        ELSE UrlPrefix \o Join(<<"/">>, SubSeq(path, https_idx + 1, Len(path)))

compute_sha256(f) == nix_base32(f.sha)

(***************************************************************************)
(* Manifest Builder: the second phase of _generate_lockfile_impl.          *)
(***************************************************************************)
RECURSIVE ProcessArtifacts(_)
ProcessArtifacts(artifacts) ==
    IF artifacts = <<>> THEN <<>>
    ELSE <<[url |-> path_to_url(Head(artifacts).path),
            sha256 |-> compute_sha256(Head(artifacts))]>>
            \o ProcessArtifacts(Tail(artifacts))

\* A plausible slip: every entry kept.
KeepAll(entries, seen_urls) == entries

RECURSIVE Deduplicate(_, _)
Deduplicate(entries, seen_urls) ==
    IF entries = <<>> THEN <<>>
    ELSE IF Head(entries).url \notin seen_urls
         THEN <<Head(entries)>>
                \o Deduplicate(Tail(entries), seen_urls \cup {Head(entries).url})
         ELSE Deduplicate(Tail(entries), seen_urls)

\* list.sort(key=url): stable.
RECURSIVE InsertByUrl(_, _)
InsertByUrl(e, sorted) ==
    IF sorted = <<>> THEN <<e>>
    ELSE IF StrLess(e.url, Head(sorted).url) THEN <<e>> \o sorted
    ELSE <<Head(sorted)>> \o InsertByUrl(e, Tail(sorted))

RECURSIVE SortedByUrl(_)
SortedByUrl(es) ==
    IF es = <<>> THEN <<>>
    ELSE InsertByUrl(es[Len(es)], SortedByUrl(SubSeq(es, 1, Len(es) - 1)))

\* A plausible slip: the zero-artifact assertion left out.
BuildManifestAllowEmpty(walk) ==
    [version |-> 1,
     artifacts |-> SortedByUrl(Deduplicate(
                        ProcessArtifacts(find_coursier_artifacts(walk)), {}))]

\* Lines 400-437: scan, the zero-artifact assertion, resolve and hash,
\* deduplicate, sort, wrap.  An entry whose url is None stands for the
\* ValueError of path_to_url.
BuildManifest(walk) ==
    LET coursier_artifacts == find_coursier_artifacts(walk)
        entries == ProcessArtifacts(coursier_artifacts)
    IN  IF coursier_artifacts = <<>>
        THEN [error |-> "AssertionError: No Coursier artifacts found"]
        ELSE IF \E i \in DOMAIN entries : entries[i].url = None
             THEN [error |-> "ValueError: Unexpected path structure"]
        ELSE [version |-> 1,
              artifacts |-> SortedByUrl(Deduplicate(entries, {}))]

\* Every order in which a directory walk can meet the files of a set.
Walks(files) ==
    {w \in [1..Cardinality(files) -> files] :
        \A i, j \in DOMAIN w : i # j => w[i] # w[j]}

(***************************************************************************)
(* The pipeline alone: scan, resolve, hash, deduplicate, sort, run twice   *)
(* over one cache whose directory walk may meet the files in any order.    *)
(***************************************************************************)
sha_1 == <<1, 0>>
sha_2 == <<170, 255>>

\* r-x/i.xml sorts before r/a.jar as a url and after it as a path.
PipelinePaths ==
    {<<s_cache, s_https, s_host, s_a_jar>>,
     <<s_https, s_host, s_a_jar>>,
     <<s_cache, s_https, s_host, s_b_pom>>,
     <<s_https, s_host, s_b_pom>>,
     <<s_https, s_host2, s_i_xml>>,
     <<s_cache, s_https, s_host, s_n_txt>>}

PipelineCaches ==
    {c \in SUBSET {File(p, h) : p \in PipelinePaths, h \in {sha_1, sha_2}} :
        /\ Cardinality(c) <= MaxFiles
        /\ \A f, g \in c : f.path = g.path => f = g}

Idle ==
    /\ pc = "idle" /\ doc = NoRecord /\ config = NoRecord
    /\ keep_temp = FALSE /\ dry_run = FALSE
    /\ sandbox = "none" /\ targets = {} /\ spawned = <<>>
    /\ ivy = IvyAbsent /\ lockfile = NoRecord
    /\ outfile = <<>> /\ stdout = <<>> /\ error = "none"
    /\ todo = <<>> /\ bridges = <<>>

PipelineInit ==
    /\ Idle
    /\ cache \in PipelineCaches
    /\ scans = <<>> /\ manifests = <<>>
    /\ environ = <<>> /\ arg = <<>> /\ expanded = None
    /\ digest = <<>> /\ encoded = None

RunPipeline ==
    /\ Len(manifests) < 2
    /\ \E walk \in Walks(cache) :
        /\ scans' = Append(scans, walk)
        /\ manifests' = Append(manifests, BuildManifest(walk))
    /\ UNCHANGED <<mainVars, cache, environ, arg, expanded, digest, encoded>>

PipelineNext == RunPipeline

PipelineSpec == PipelineInit /\ [][PipelineNext]_vars

\* The urls the artifact files of the cache resolve to.
IsScanned(f) ==
    /\ \/ (Len(f.path) > 2 /\ SubSeq(f.path, 1, 2) = <<s_cache, s_https>>)
       \/ (Len(f.path) > 1 /\ f.path[1] = s_https)
    /\ \E x \in ArtifactSuffixes : EndsWith(f.path[Len(f.path)], x)

DistinctUrls == {path_to_url(f.path) : f \in {g \in cache : IsScanned(g)}}

\* C3: a returned manifest lists exactly the distinct urls of the discovered
\* artifact files, one entry each, in strictly ascending order of url.
ManifestUniqueSorted ==
    \A r \in DOMAIN manifests :
        LET m == manifests[r] IN
        /\ ("artifacts" \in DOMAIN m) <=> (DistinctUrls # {})
        /\ "artifacts" \in DOMAIN m =>
            /\ m.version = 1
            /\ {m.artifacts[i].url : i \in DOMAIN m.artifacts} = DistinctUrls
            /\ Len(m.artifacts) = Cardinality(DistinctUrls)
            /\ \A i \in 1..(Len(m.artifacts) - 1) :
                StrLess(m.artifacts[i].url, m.artifacts[i + 1].url)

\* A manifest over a cache in which two files resolve to one url and a third
\* url orders differently as a path and as a url.
ManifestUniqueSortedWitness ==
    /\ Len(manifests) >= 1
    /\ "artifacts" \in DOMAIN manifests[1]
    /\ Len(manifests[1].artifacts) = 2
    /\ Cardinality({g \in cache : IsScanned(g)}) = 3
    /\ \E f \in cache : f.path[2] = s_host2

\* C8: two runs over the same cache return the same manifest, whatever
\* order each walk met the files in.
ManifestOrderIndependent ==
    Len(manifests) = 2 => manifests[1] = manifests[2]

\* Two runs whose walks differed, over a cache holding two files of one url
\* with different bytes.
ManifestOrderIndependentWitness ==
    /\ Len(manifests) = 2
    /\ scans[1] # scans[2]
    /\ "artifacts" \in DOMAIN manifests[2]
    /\ \E f, g \in cache :
        /\ f.path # g.path
        /\ path_to_url(f.path) = path_to_url(g.path)
        /\ f.sha # g.sha
        /\ Index(scans[1], f, 1) < Index(scans[1], g, 1)
        /\ Index(scans[2], g, 1) < Index(scans[2], f, 1)

(***************************************************************************)
(* The encoder alone.                                                      *)
(***************************************************************************)
EncoderInit ==
    /\ Idle
    /\ digest \in Digests /\ encoded = None
    /\ cache = {} /\ scans = <<>> /\ manifests = <<>>
    /\ environ = <<>> /\ arg = <<>> /\ expanded = None

Encode ==
    /\ encoded = None
    /\ encoded' = nix_base32(digest)
    /\ UNCHANGED <<mainVars, cache, scans, manifests, environ, arg, expanded, digest>>

EncoderNext == Encode

EncoderSpec == EncoderInit /\ [][EncoderNext]_vars

\* Bit j of the digest read as a little-endian unsigned integer.
DigestBit(bytes, j) ==
    IF j >= 8 * Len(bytes) THEN 0
    ELSE (bytes[(j \div 8) + 1] \div (2 ^ (j % 8))) % 2

FiveBits(bytes, i) ==
    DigestBit(bytes, 5 * i) + 2 * DigestBit(bytes, 5 * i + 1)
        + 4 * DigestBit(bytes, 5 * i + 2) + 8 * DigestBit(bytes, 5 * i + 3)
        + 16 * DigestBit(bytes, 5 * i + 4)

CeilDiv5(bits) == CHOOSE k \in 0..bits : 5 * k >= bits /\ 5 * k < bits + 5

\* C9: the encoding of an n-byte digest has ceil(8n/5) symbols, the symbol at
\* position i from the right is the alphabet symbol of bits 5i..5i+4, the
\* all-zero digest gives only '0', and no other digest of the same width
\* gives the same string.
NixBase32Exact ==
    encoded # None =>
        /\ Len(encoded) = CeilDiv5(8 * Len(digest))
        /\ \A i \in 0..(Len(encoded) - 1) :
            encoded[Len(encoded) - i] = NIX_BASE32_ALPHABET[FiveBits(digest, i) + 1]
        /\ (\A k \in DOMAIN digest : digest[k] = 0) =>
            \A i \in DOMAIN encoded : encoded[i] = "0"
        /\ \A other \in BytesOfLen(Len(digest)) :
            other # digest => nix_base32(other) # encoded

\* The all-zero digest of the widest width has been encoded, to the full
\* length.
NixBase32ExactWitness ==
    /\ encoded # None
    /\ Len(digest) = MaxDigestBytes
    /\ \A k \in DOMAIN digest : digest[k] = 0
    /\ Len(encoded) > Len(digest)

(***************************************************************************)
(* The environment overlay and the expansion of shell command arguments.   *)
(* An environment is a function from names to values.                      *)
(***************************************************************************)
n_HOME == <<"H", "O", "M", "E">>
n_COURSIER_CACHE == <<"C", "O", "U", "R", "S", "I", "E", "R", "_", "C", "A", "C", "H", "E">>
n_SBT_GLOBAL_BASE == <<"S", "B", "T", "_", "G", "L", "O", "B", "A", "L", "_", "B", "A", "S", "E">>
n_SBT_BOOT_DIRECTORY == <<"S", "B", "T", "_", "B", "O", "O", "T", "_", "D", "I", "R", "E", "C", "T", "O", "R", "Y">>
n_SBT_OPTS == <<"S", "B", "T", "_", "O", "P", "T", "S">>
n_JAVA_OPTIONS == <<"_", "J", "A", "V", "A", "_", "O", "P", "T", "I", "O", "N", "S">>
n_HOMEX == <<"H", "O", "M", "E", "X">>
n_U == <<"U">>

\* str(temp_home)
temp_home == <<"/", "t">>
coursier_cache_dir == temp_home \o <<"/", ".", "c", "a", "c", "h", "e", "/", "c", "o", "u", "r", "s", "i", "e", "r">>
sbt_global == temp_home \o <<"/", ".", "s", "b", "t">>
sbt_boot == sbt_global \o <<"/", "b", "o", "o", "t">>

Put(e, name, value) ==
    [n \in DOMAIN e \cup {name} |-> IF n = name THEN value ELSE e[n]]

\* Lines 326-337: os.environ.copy() with the sandbox's variables laid over.
OverlayEnv(os_environ) ==
    LET e1 == Put(os_environ, n_HOME, temp_home)
        e2 == Put(e1, n_COURSIER_CACHE, coursier_cache_dir)
        e3 == Put(e2, n_SBT_GLOBAL_BASE, sbt_global)
        e4 == Put(e3, n_SBT_BOOT_DIRECTORY, sbt_boot)
        e5 == Put(e4, n_SBT_OPTS,
                  <<"-", "D", "s", "b", "t", ".", "b", "o", "o", "t", ".", "d", "i", "r", "e", "c", "t", "o", "r", "y", "=">> \o sbt_boot
                    \o <<" ", "-", "D", "s", "b", "t", ".", "c", "o", "u", "r", "s", "i", "e", "r", ".", "h", "o", "m", "e", "=">> \o coursier_cache_dir)
        user_home == <<"-", "D", "u", "s", "e", "r", ".", "h", "o", "m", "e", "=">> \o temp_home
        java_opts == IF n_JAVA_OPTIONS \in DOMAIN e5
                     THEN e5[n_JAVA_OPTIONS] \o <<" ">> \o user_home
                     ELSE user_home
    IN  Put(e5, n_JAVA_OPTIONS, java_opts)

\* \w of the regular expression posixpath.expandvars uses.
WordChars ==
    {Ascii[i] : i \in {j \in DOMAIN Ascii :
        \/ Ord("0") <= j /\ j <= Ord("9")
        \/ Ord("A") <= j /\ j <= Ord("Z")
        \/ Ord("a") <= j /\ j <= Ord("z")
        \/ j = Ord("_")}}

\* Length of the longest run of word characters s starts with.
RECURSIVE WordRun(_)
WordRun(s) ==
    IF s # <<>> /\ Head(s) \in WordChars THEN 1 + WordRun(Tail(s)) ELSE 0

\* str.find(c): the first position holding c, 0 when there is none.
Find(s, c) == Index(s, c, 1)

\* os.path.expandvars over the environment it reads: $NAME and ${NAME} are
\* replaced by the value of NAME when it is set and left as written when it
\* is not; a substituted value is not expanded again.
RECURSIVE ExpandVars(_, _)
ExpandVars(s, environment) ==
    IF s = <<>> THEN <<>>
    ELSE IF Head(s) # "$" THEN <<Head(s)>> \o ExpandVars(Tail(s), environment)
    ELSE LET rest == Tail(s)
             run == WordRun(rest)
             close == Find(rest, "}")
         IN  IF run > 0
             THEN LET name == SubSeq(rest, 1, run)
                  IN  (IF name \in DOMAIN environment
                       THEN environment[name] ELSE <<"$">> \o name)
                        \o ExpandVars(Drop(rest, run), environment)
             ELSE IF rest # <<>> /\ Head(rest) = "{" /\ close > 0
             THEN LET name == SubSeq(rest, 2, close - 1)
                  IN  (IF name \in DOMAIN environment
                       THEN environment[name] ELSE <<"$">> \o SubSeq(rest, 1, close))
                        \o ExpandVars(Drop(rest, close), environment)
             ELSE <<"$">> \o ExpandVars(rest, environment)

\* Line 354: os.path.expandvars(arg.replace("$HOME", env["HOME"])), where
\* expandvars reads os.environ, the invoking process's environment.
ExpandArg(a, env, os_environ) ==
    ExpandVars(Replace(a, <<"$">> \o n_HOME, env[n_HOME]), os_environ)

RECURSIVE ExpandCmd(_, _, _)
ExpandCmd(cmd, env, os_environ) ==
    IF cmd = <<>> THEN <<>>
    ELSE <<ExpandArg(Head(cmd), env, os_environ)>>
            \o ExpandCmd(Tail(cmd), env, os_environ)

(***************************************************************************)
(* The expansion alone.                                                    *)
(***************************************************************************)
ArgPieces ==
    {<<"$">> \o n_HOME,
     <<"$", "{">> \o n_HOME \o <<"}">>,
     <<"$">> \o n_HOMEX,
     <<"$">> \o n_COURSIER_CACHE,
     <<"$", "{">> \o n_JAVA_OPTIONS \o <<"}">>,
     <<"$">> \o n_U,
     <<"/", "x">>}

RECURSIVE ArgsOf(_)
ArgsOf(n) ==
    IF n = 0 THEN {<<>>}
    ELSE ArgsOf(n - 1) \cup {p \o a : p \in ArgPieces, a \in ArgsOf(n - 1)}

\* What the invoking process may have set.
OsSettings ==
    {<<n_HOME, <<"/", "u">> >>,
     <<n_HOMEX, <<"/", "b">> >>,
     <<n_COURSIER_CACHE, <<"/", "c">> >>,
     <<n_JAVA_OPTIONS, <<"-", "X">> >>}

EnvOf(settings) ==
    [n \in {st[1] : st \in settings} |->
        (CHOOSE st \in settings : st[1] = n)[2]]

OsEnvirons == {EnvOf(st) : st \in SUBSET OsSettings}

ExpandInit ==
    /\ Idle
    /\ environ \in OsEnvirons
    /\ arg \in ArgsOf(MaxPieces) /\ expanded = None
    /\ cache = {} /\ scans = <<>> /\ manifests = <<>>
    /\ digest = <<>> /\ encoded = None

Expand ==
    /\ expanded = None
    /\ expanded' = ExpandArg(arg, OverlayEnv(environ), environ)
    /\ UNCHANGED <<mainVars, cache, scans, manifests, environ, arg, digest, encoded>>

ExpandNext == Expand

ExpandSpec == ExpandInit /\ [][ExpandNext]_vars

\* C10: every reference, $NAME or ${NAME}, in a shell command argument is
\* expanded against the overlay environment: a variable the overlay sets
\* gets the sandbox's value, never the invoking process's, and a variable
\* whose name only starts with HOME is not rewritten with the sandbox path.
ExpandedAgainstOverlay ==
    expanded # None => expanded = ExpandVars(arg, OverlayEnv(environ))

(***************************************************************************)
(* The configuration document: a JSON value is its type and its content.   *)
(***************************************************************************)
JStr(chars) == [type |-> "string", value |-> chars]
JNum(n) == [type |-> "number", value |-> n]
JArr(items) == [type |-> "array", value |-> items]
JObj(fields) == [type |-> "object", value |-> fields]

\* isinstance(v, list) / isinstance(v, dict) / `key in v` / bool(v)
IsList(v) == v.type = "array"
IsDict(v) == v.type = "object"
Has(v, key) ==
    CASE v.type = "object" -> key \in DOMAIN v.value
      [] v.type = "array" -> \E i \in DOMAIN v.value : v.value[i] = JStr(key)
      [] OTHER -> FALSE
Truthy(v) ==
    CASE v.type = "string" -> v.value # <<>>
      [] v.type = "number" -> v.value # 0
      [] v.type = "array" -> v.value # <<>>
      [] OTHER -> DOMAIN v.value # {}

ConfigError == [error |-> "ValueError"]

\* Lines 70-78: one entry of sbt_runs, ConfigError for a ValueError.
LoadSbtRun(run_data) ==
    IF ~IsDict(run_data) THEN ConfigError
    ELSE IF ~Has(run_data, "args") THEN ConfigError
    ELSE IF ~IsList(run_data.value["args"]) THEN ConfigError
    ELSE IF ~Truthy(run_data.value["args"]) THEN ConfigError
    ELSE [args |-> run_data.value["args"].value]

\* Lines 84-87: one entry of shell_commands.
LoadShellCommand(cmd) == IF ~IsList(cmd) THEN ConfigError ELSE [argv |-> cmd.value]

\* Lines 93-101: one entry of fetch_artifacts.
LoadArtifactFetch(fetch_data) ==
    IF ~IsDict(fetch_data) THEN ConfigError
    ELSE IF ~Has(fetch_data, "coord") THEN ConfigError
    ELSE LET classifiers == IF Has(fetch_data, "classifiers")
                            THEN fetch_data.value["classifiers"] ELSE JArr(<<>>)
         IN  IF ~IsList(classifiers) THEN ConfigError
             ELSE IF ~Truthy(fetch_data.value["coord"]) THEN ConfigError
             ELSE [coord |-> fetch_data.value["coord"],
                   classifiers |-> classifiers.value]

\* Config.load, lines 58-103, with the constructors' checks.
LoadConfig(data) ==
    IF ~Has(data, "sbt_runs") THEN ConfigError
    ELSE IF ~IsList(data.value["sbt_runs"]) THEN ConfigError
    ELSE
    LET runs == data.value["sbt_runs"].value
        sbt_runs == [i \in DOMAIN runs |-> LoadSbtRun(runs[i])]
        has_shell == Has(data, "shell_commands")
        shell == IF has_shell /\ IsList(data.value["shell_commands"])
                 THEN data.value["shell_commands"].value ELSE <<>>
        shell_commands == [i \in DOMAIN shell |-> LoadShellCommand(shell[i])]
        has_fetch == Has(data, "fetch_artifacts")
        fetch == IF has_fetch /\ IsList(data.value["fetch_artifacts"])
                 THEN data.value["fetch_artifacts"].value ELSE <<>>
        fetch_artifacts == [i \in DOMAIN fetch |-> LoadArtifactFetch(fetch[i])]
    IN  IF \E i \in DOMAIN sbt_runs : sbt_runs[i] = ConfigError THEN ConfigError
        ELSE IF has_shell /\ ~IsList(data.value["shell_commands"]) THEN ConfigError
        ELSE IF \E i \in DOMAIN shell_commands : shell_commands[i] = ConfigError
             THEN ConfigError
        ELSE IF has_fetch /\ ~IsList(data.value["fetch_artifacts"]) THEN ConfigError
        ELSE IF \E i \in DOMAIN fetch_artifacts : fetch_artifacts[i] = ConfigError
             THEN ConfigError
        ELSE IF sbt_runs = <<>> THEN ConfigError
        ELSE [sbt_runs |-> sbt_runs,
              shell_commands |-> [i \in DOMAIN shell_commands |-> shell_commands[i].argv],
              fetch_artifacts |-> fetch_artifacts]

(***************************************************************************)
(* The documents of the model.                                             *)
(***************************************************************************)
StepNames == <<"c", "t", "p", "q">>

RunDoc(k) == JObj([args |-> JArr(<<JStr(<<StepNames[k]>>)>>)])

\* The first command line refers to the home directory in both forms.
ShellDoc(k) ==
    IF k = 1
    THEN JArr(<<JStr(<<"g">>),
                JStr(<<"$">> \o n_HOME \o <<"/", "$", "{">> \o n_HOME \o <<"}">>)>>)
    ELSE JArr(<<JStr(<<StepNames[k]>>)>>)

coord_1 == <<"o", ":", "a", ":", "1">>

FetchDoc(coord, k) ==
    JObj([coord |-> coord,
          classifiers |-> JArr([i \in 1..k |-> JStr(<<StepNames[i]>>)])])

ConfigDoc(shell, runs, fetch) ==
    JObj([sbt_runs |-> JArr(runs),
          shell_commands |-> JArr(shell),
          fetch_artifacts |-> JArr(fetch)])

Shells(n) == [i \in 1..n |-> ShellDoc(i)]
Runs(n) == [i \in 1..n |-> RunDoc(i)]

\* Runs only; shell command lines before one run; and the full sequence of
\* shell command lines, runs and a fetch with classifiers.
ValidDocuments ==
    [n \in 1..MaxRuns |-> JObj([sbt_runs |-> JArr(Runs(n))])]
    \o [s \in 1..MaxShell |-> ConfigDoc(Shells(s), Runs(1), <<>>)]
    \o [k \in 1..(MaxClassifiers + 1) |->
            ConfigDoc(Shells(MaxShell), Runs(MaxRuns),
                      <<FetchDoc(JStr(coord_1), k - 1)>>)]

\* Each departs from the documented structure in one place.
InvalidDocuments ==
    <<JArr(<<>>),
     JObj([shell_commands |-> JArr(<<>>)]),
     JObj([sbt_runs |-> JNum(1)]),
     JObj([sbt_runs |-> JArr(<<>>)]),
     JObj([sbt_runs |-> JArr(<<JStr(<<"c">>)>>)]),
     JObj([sbt_runs |-> JArr(<<JObj([arg |-> JArr(<<JStr(<<"c">>)>>)])>>)]),
     JObj([sbt_runs |-> JArr(<<JObj([args |-> JStr(<<"c">>)])>>)]),
     JObj([sbt_runs |-> JArr(<<JObj([args |-> JArr(<<>>)])>>)]),
     JObj([sbt_runs |-> JArr(<<RunDoc(1), JObj([args |-> JArr(<<JNum(1)>>)])>>)]),
     JObj([sbt_runs |-> JArr(Runs(1)), shell_commands |-> JStr(<<"g">>)]),
     JObj([sbt_runs |-> JArr(Runs(1)), shell_commands |-> JArr(<<JStr(<<"g">>)>>)]),
     ConfigDoc(<<ShellDoc(1), JArr(<<>>)>>, Runs(1), <<>>),
     ConfigDoc(<<JArr(<<JNum(1)>>)>>, Runs(1), <<>>),
     JObj([sbt_runs |-> JArr(Runs(1)), fetch_artifacts |-> JObj([coord |-> JStr(coord_1)])]),
     ConfigDoc(<<>>, Runs(1), <<JStr(coord_1)>>),
     ConfigDoc(<<>>, Runs(1), <<JObj([classifiers |-> JArr(<<>>)])>>),
     ConfigDoc(<<>>, Runs(1), <<FetchDoc(JStr(<<>>), 0)>>),
     ConfigDoc(<<>>, Runs(1), <<FetchDoc(JNum(5), 1)>>),
     ConfigDoc(<<>>, Runs(1),
               <<JObj([coord |-> JStr(coord_1), classifiers |-> JStr(<<"s">>)])>>)>>

Documents == ValidDocuments \o InvalidDocuments

\* The structure the configuration input is documented to have.
IsStrings(v) ==
    /\ IsList(v)
    /\ \A i \in DOMAIN v.value : v.value[i].type = "string"

StructurallyValid(d) ==
    /\ IsDict(d) /\ Has(d, "sbt_runs")
    /\ IsList(d.value["sbt_runs"]) /\ d.value["sbt_runs"].value # <<>>
    /\ \A i \in DOMAIN d.value["sbt_runs"].value :
        LET r == d.value["sbt_runs"].value[i] IN
        /\ IsDict(r) /\ Has(r, "args")
        /\ IsStrings(r.value["args"]) /\ r.value["args"].value # <<>>
    /\ Has(d, "shell_commands") =>
        /\ IsList(d.value["shell_commands"])
        /\ \A i \in DOMAIN d.value["shell_commands"].value :
            LET c == d.value["shell_commands"].value[i] IN
            IsStrings(c) /\ c.value # <<>>
    /\ Has(d, "fetch_artifacts") =>
        /\ IsList(d.value["fetch_artifacts"])
        /\ \A i \in DOMAIN d.value["fetch_artifacts"].value :
            LET a == d.value["fetch_artifacts"].value[i] IN
            /\ IsDict(a) /\ Has(a, "coord")
            /\ a.value["coord"].type = "string" /\ a.value["coord"].value # <<>>
            /\ Has(a, "classifiers") => IsStrings(a.value["classifiers"])

(***************************************************************************)
(* What the spawned tools leave on disk.                                   *)
(***************************************************************************)
s_repo1 == <<"r", "e", "p", "o", "1", ".", "m", "a", "v", "e", "n", ".", "o", "r", "g">>
s_maven2 == <<"m", "a", "v", "e", "n", "2">>
s_org == <<"o", "r", "g">>
s_scala_sbt == <<"s", "c", "a", "l", "a", "-", "s", "b", "t">>
s_compiler_bridge == <<"c", "o", "m", "p", "i", "l", "e", "r", "-", "b", "r", "i", "d", "g", "e", "_">>
s_x_jar == <<"x", ".", "j", "a", "r">>

bridge_base == <<s_cache, s_https, s_repo1, s_maven2, s_org, s_scala_sbt>>

\* What an sbt run may download into the coursier cache.
SbtDownloads ==
    {File(<<s_cache, s_https, s_host, s_a_jar>>, sha_1),
     File(<<s_cache, s_https, s_host, s_n_txt>>, sha_1),
     File(bridge_base \o <<s_compiler_bridge \o <<"2">>, <<"1">>, s_x_jar>>, sha_2)}

\* What a cs fetch may download: a second copy of an artifact under the
\* other cache layout, with other bytes.
CsDownloads == {File(<<s_https, s_host, s_a_jar>>, sha_2)}

\* What an sbt run may leave under <home>/.ivy2/cache: the paths of its files.
IvyLayouts ==
    {{},
     {<<s_org, s_x_jar>>},
     {<<s_b_pom>>},
     {<<s_i_xml>>},
     {<<s_n_txt>>}}

(***************************************************************************)
(* assert_no_ivy_artifacts and find_compiler_bridges.                      *)
(***************************************************************************)
\* Lines 163-167: whether the check raises.
IvyArtifactsFound(ivy_cache) ==
    /\ ivy_cache.exists
    /\ \E path \in ivy_cache.files :
        \/ EndsWith(path[Len(path)], s_dot_jar)
        \/ EndsWith(path[Len(path)], s_dot_pom)

\* Lines 179-190: the (scala_version, bridge_version) pairs, as a set.
CompilerBridges(files) ==
    {<<Replace(f.path[Len(bridge_base) + 1], s_compiler_bridge, <<>>),
       f.path[Len(bridge_base) + 2]>> :
        f \in {g \in files :
                /\ Len(g.path) > Len(bridge_base) + 2
                /\ StartsWith(g.path, bridge_base)
                /\ StartsWith(g.path[Len(bridge_base) + 1], s_compiler_bridge)}}

(***************************************************************************)
(* The fetches of fetch_bridge_sources and fetch_configured_artifacts.     *)
(***************************************************************************)
s_cs == <<"c", "s">>
s_fetch == <<"f", "e", "t", "c", "h">>
s_sources == <<"-", "-", "s", "o", "u", "r", "c", "e", "s">>
s_classifier == <<"-", "-", "c", "l", "a", "s", "s", "i", "f", "i", "e", "r", "=">>
s_sbt == <<"s", "b", "t">>
s_batch == <<"-", "-", "b", "a", "t", "c", "h">>

BridgeCoord(b) ==
    <<"o", "r", "g", ".", "s", "c", "a", "l", "a", "-", "s", "b", "t", ":", "c", "o", "m", "p", "i", "l", "e", "r", "-", "b", "r", "i", "d", "g", "e", "_">> \o b[1] \o <<":">> \o b[2]

\* Lines 205-229: per pair the main fetch, then the sources fetch.
RECURSIVE BridgeFetches(_)
BridgeFetches(bs) ==
    IF bs = <<>> THEN <<>>
    ELSE <<[options |-> <<>>, coord |-> JStr(BridgeCoord(Head(bs)))],
           [options |-> <<s_sources>>, coord |-> JStr(BridgeCoord(Head(bs)))]>>
            \o BridgeFetches(Tail(bs))

\* An f-string formats a str as itself.
Format(v) == IF v.type = "string" THEN v.value ELSE <<"#">>

\* Lines 246-271: per artifact the main fetch, then one fetch per classifier.
RECURSIVE ConfiguredFetches(_)
ConfiguredFetches(fetch_artifacts) ==
    IF fetch_artifacts = <<>> THEN <<>>
    ELSE LET a == Head(fetch_artifacts) IN
         <<[options |-> <<>>, coord |-> a.coord]>>
            \o [i \in DOMAIN a.classifiers |->
                  [options |-> <<s_classifier \o Format(a.classifiers[i])>>,
                   coord |-> a.coord]]
            \o ConfiguredFetches(Tail(fetch_artifacts))

FetchArgv(item) == <<s_cs, s_fetch>> \o item.options \o <<item.coord.value>>

Values(args) == [i \in DOMAIN args |-> args[i].value]

\* json.dumps(lockfile, indent=2) + "\n": the text is not modelled, only
\* which value it is the text of.
JsonDumps(value) == [json |-> value]

(***************************************************************************)
(* One run of main().                                                      *)
(***************************************************************************)
otherVars == <<scans, manifests, digest, encoded, arg, expanded>>

MainEnviron == EnvOf({<<n_HOME, <<"/", "u">> >>, <<n_HOMEX, <<"/", "b">> >>})

ProjectTargets == {"target", "project/target"}

Init ==
    /\ pc = "load"
    /\ \E k \in DOMAIN Documents : doc = Documents[k]
    /\ config = NoRecord
    /\ keep_temp \in BOOLEAN /\ dry_run \in BOOLEAN
    /\ environ = MainEnviron
    /\ sandbox = "none"
    /\ targets \in {{}, ProjectTargets}
    /\ spawned = <<>> /\ cache = {} /\ ivy = IvyAbsent
    /\ lockfile = NoRecord /\ outfile = <<>> /\ stdout = <<>> /\ error = "none"
    /\ todo = <<>> /\ bridges = <<>>
    /\ scans = <<>> /\ manifests = <<>>
    /\ digest = <<>> /\ encoded = None /\ arg = <<>> /\ expanded = None

\* Line 470: Config.load; a ValueError ends main() there.
Load ==
    /\ pc = "load"
    /\ LET loaded == LoadConfig(doc) IN
        IF "error" \in DOMAIN loaded
        THEN /\ error' = loaded.error
             /\ pc' = "failed"
             /\ UNCHANGED config
        ELSE /\ config' = loaded
             /\ pc' = "mktemp"
             /\ UNCHANGED error
    /\ UNCHANGED <<doc, keep_temp, dry_run, environ, sandbox, targets, spawned,
                   cache, ivy, lockfile, outfile, stdout, todo, bridges, otherVars>>

\* Lines 296-303: the temporary home is created.
MkTemp ==
    /\ pc = "mktemp"
    /\ sandbox' = "exists"
    /\ pc' = "setup"
    /\ UNCHANGED <<doc, config, keep_temp, dry_run, environ, targets, spawned,
                   cache, ivy, lockfile, outfile, stdout, error, todo, bridges,
                   otherVars>>

\* Lines 317-349: the directories, the overlay, the target directories
\* removed; shutil.rmtree may raise.
Setup ==
    /\ pc = "setup"
    /\ \/ /\ targets' = {}
          /\ IF config.shell_commands # <<>>
             THEN pc' = "shell" /\ todo' = config.shell_commands
             ELSE pc' = "sbt" /\ todo' = config.sbt_runs
          /\ UNCHANGED error
       \/ /\ targets # {}
          /\ error' = "OSError"
          /\ pc' = "finally"
          /\ UNCHANGED <<targets, todo>>
    /\ UNCHANGED <<doc, config, keep_temp, dry_run, environ, sandbox, spawned,
                   cache, ivy, lockfile, outfile, stdout, bridges, otherVars>>

StepIndex(all) == Len(all) - Len(todo) + 1

\* A plausible slip: the exit status of a shell command not looked at.
ShellStepUnchecked ==
    /\ pc = "shell"
    /\ LET cmd == Head(todo) IN
        /\ \A i \in DOMAIN cmd : cmd[i].type = "string"
        /\ cmd # <<>>
        /\ \E rc \in {0, 1} :
            /\ spawned' = Append(spawned,
                    [kind |-> "shell", i |-> StepIndex(config.shell_commands),
                     argv |-> ExpandCmd(Values(cmd), OverlayEnv(environ), environ),
                     rc |-> rc])
            /\ IF Tail(todo) # <<>>
               THEN pc' = "shell" /\ todo' = Tail(todo)
               ELSE pc' = "sbt" /\ todo' = config.sbt_runs
            /\ UNCHANGED error
    /\ UNCHANGED <<doc, config, keep_temp, dry_run, environ, sandbox, targets,
                   cache, ivy, lockfile, outfile, stdout, bridges, otherVars>>

\* Lines 352-365: one shell command line.  A non-string argument raises in
\* the expansion, an empty command line in subprocess.run; a non-zero exit
\* raises RuntimeError.
ShellStep ==
    /\ pc = "shell"
    /\ LET cmd == Head(todo) IN
        IF \E i \in DOMAIN cmd : cmd[i].type # "string"
        THEN /\ error' = "AttributeError" /\ pc' = "finally"
             /\ UNCHANGED <<spawned, todo>>
        ELSE IF cmd = <<>>
        THEN /\ error' = "IndexError" /\ pc' = "finally"
             /\ UNCHANGED <<spawned, todo>>
        ELSE \E rc \in {0, 1} :
            /\ spawned' = Append(spawned,
                    [kind |-> "shell", i |-> StepIndex(config.shell_commands),
                     argv |-> ExpandCmd(Values(cmd), OverlayEnv(environ), environ),
                     rc |-> rc])
            /\ IF rc # 0
               THEN error' = "RuntimeError" /\ pc' = "finally" /\ UNCHANGED todo
               ELSE /\ IF Tail(todo) # <<>>
                       THEN pc' = "shell" /\ todo' = Tail(todo)
                       ELSE pc' = "sbt" /\ todo' = config.sbt_runs
                    /\ UNCHANGED error
    /\ UNCHANGED <<doc, config, keep_temp, dry_run, environ, sandbox, targets,
                   cache, ivy, lockfile, outfile, stdout, bridges, otherVars>>

\* Lines 368-384: one sbt run.  A non-string argument raises in the join of
\* the log line; sbt may download and may write the legacy cache whatever
\* its exit status; a non-zero exit raises RuntimeError.
SbtStep ==
    /\ pc = "sbt"
    /\ LET args == Head(todo).args IN
        IF \E i \in DOMAIN args : args[i].type # "string"
        THEN /\ error' = "TypeError" /\ pc' = "finally"
             /\ UNCHANGED <<spawned, todo, cache, ivy>>
        ELSE \E rc \in {0, 1} :
            /\ spawned' = Append(spawned,
                    [kind |-> "sbt", i |-> StepIndex(config.sbt_runs),
                     argv |-> <<s_sbt, s_batch>> \o Values(args), rc |-> rc])
            /\ \E got \in {{}} \cup {{f} : f \in SbtDownloads} : cache' = cache \cup got
            /\ \/ ivy' = ivy
               \/ /\ ~ivy.exists
                  /\ \E layout \in IvyLayouts : ivy' = [exists |-> TRUE, files |-> layout]
            /\ IF rc # 0
               THEN error' = "RuntimeError" /\ pc' = "finally" /\ UNCHANGED todo
               ELSE /\ IF Tail(todo) # <<>>
                       THEN pc' = "sbt" /\ todo' = Tail(todo)
                       ELSE pc' = "bridges" /\ todo' = <<>>
                    /\ UNCHANGED error
    /\ UNCHANGED <<doc, config, keep_temp, dry_run, environ, sandbox, targets,
                   lockfile, outfile, stdout, bridges, otherVars>>

\* Lines 387-392 up to the first fetch: the bridges found, in the order glob
\* gave them, and the fetches the two fetch functions will make.
FindBridges ==
    /\ pc = "bridges"
    /\ \E found \in Walks(CompilerBridges(cache)) :
        /\ bridges' = found
        /\ todo' = BridgeFetches(found) \o ConfiguredFetches(config.fetch_artifacts)
        /\ pc' = IF todo' # <<>> THEN "fetch" ELSE "ivycheck"
    /\ UNCHANGED <<doc, config, keep_temp, dry_run, environ, sandbox, targets,
                   spawned, cache, ivy, lockfile, outfile, stdout, error, otherVars>>

\* A plausible slip: a failed fetch treated like a failed sbt run.
FetchFatal ==
    /\ pc = "fetch"
    /\ Head(todo).coord.type = "string"
    /\ \E rc \in {0, 1} :
        /\ spawned' = Append(spawned,
                [kind |-> "fetch", i |-> 0, argv |-> FetchArgv(Head(todo)), rc |-> rc])
        /\ IF rc = 0
           THEN /\ \E got \in {{}} \cup {{f} : f \in CsDownloads} : cache' = cache \cup got
                /\ todo' = Tail(todo)
                /\ pc' = IF Tail(todo) # <<>> THEN "fetch" ELSE "ivycheck"
                /\ UNCHANGED error
           ELSE /\ error' = "RuntimeError" /\ pc' = "finally"
                /\ UNCHANGED <<cache, todo>>
    /\ UNCHANGED <<doc, config, keep_temp, dry_run, environ, sandbox, targets,
                   ivy, lockfile, outfile, stdout, bridges, otherVars>>

\* Lines 210-229 and 250-271: one cs fetch.  A non-string coordinate raises
\* in subprocess.run; a non-zero exit is logged and the loop goes on.
Fetch ==
    /\ pc = "fetch"
    /\ IF Head(todo).coord.type # "string"
       THEN /\ error' = "TypeError" /\ pc' = "finally"
            /\ UNCHANGED <<spawned, todo, cache>>
       ELSE \E rc \in {0, 1} :
            /\ spawned' = Append(spawned,
                    [kind |-> "fetch", i |-> 0, argv |-> FetchArgv(Head(todo)),
                     rc |-> rc])
            /\ IF rc = 0
               THEN \E got \in {{}} \cup {{f} : f \in CsDownloads} :
                        cache' = cache \cup got
               ELSE cache' = cache
            /\ todo' = Tail(todo)
            /\ pc' = IF Tail(todo) # <<>> THEN "fetch" ELSE "ivycheck"
            /\ UNCHANGED error
    /\ UNCHANGED <<doc, config, keep_temp, dry_run, environ, sandbox, targets,
                   ivy, lockfile, outfile, stdout, bridges, otherVars>>

\* Lines 396-398: the legacy-cache assertion.
AssertNoIvy ==
    /\ pc = "ivycheck"
    /\ IF IvyArtifactsFound(ivy)
       THEN error' = "AssertionError: Ivy artifacts" /\ pc' = "finally"
       ELSE pc' = "scan" /\ UNCHANGED error
    /\ UNCHANGED <<doc, config, keep_temp, dry_run, environ, sandbox, targets,
                   spawned, cache, ivy, lockfile, outfile, stdout, todo, bridges,
                   otherVars>>

\* Lines 400-437: the scan and the manifest.
ScanAndBuild ==
    /\ pc = "scan"
    /\ \E walk \in Walks(cache) :
        LET built == BuildManifest(walk) IN
        IF "error" \in DOMAIN built
        THEN error' = built.error /\ UNCHANGED lockfile
        ELSE lockfile' = built /\ UNCHANGED error
    /\ pc' = "finally"
    /\ UNCHANGED <<doc, config, keep_temp, dry_run, environ, sandbox, targets,
                   spawned, cache, ivy, outfile, stdout, todo, bridges, otherVars>>

\* A plausible slip: the cleanup after the call instead of in a finally.
CleanupOnSuccess ==
    /\ pc = "finally"
    /\ sandbox' = IF keep_temp \/ error # "none" THEN sandbox ELSE "removed"
    /\ pc' = IF error = "none" THEN "write" ELSE "failed"
    /\ UNCHANGED <<doc, config, keep_temp, dry_run, environ, targets, spawned,
                   cache, ivy, lockfile, outfile, stdout, error, todo, bridges,
                   otherVars>>

\* Lines 305-311: the finally clause; an exception then leaves main().
Finally ==
    /\ pc = "finally"
    /\ sandbox' = IF keep_temp THEN sandbox ELSE "removed"
    /\ pc' = IF error = "none" THEN "write" ELSE "failed"
    /\ UNCHANGED <<doc, config, keep_temp, dry_run, environ, targets, spawned,
                   cache, ivy, lockfile, outfile, stdout, error, todo, bridges,
                   otherVars>>

\* Lines 474-478: the lockfile written unless --dry-run.
WriteFile ==
    /\ pc = "write"
    /\ outfile' = IF dry_run THEN outfile ELSE Append(outfile, JsonDumps(lockfile))
    /\ pc' = "stdout"
    /\ UNCHANGED <<doc, config, keep_temp, dry_run, environ, sandbox, targets,
                   spawned, cache, ivy, lockfile, stdout, error, todo, bridges,
                   otherVars>>

\* Line 480.
WriteStdout ==
    /\ pc = "stdout"
    /\ stdout' = Append(stdout, JsonDumps(lockfile))
    /\ pc' = "done"
    /\ UNCHANGED <<doc, config, keep_temp, dry_run, environ, sandbox, targets,
                   spawned, cache, ivy, lockfile, outfile, error, todo, bridges,
                   otherVars>>

Next ==
    \/ Load \/ MkTemp \/ Setup \/ ShellStep \/ SbtStep \/ FindBridges \/ Fetch
    \/ AssertNoIvy \/ ScanAndBuild \/ Finally \/ WriteFile \/ WriteStdout

Spec == Init /\ [][Next]_vars

(***************************************************************************)
(* Properties of a run.                                                    *)
(***************************************************************************)
IsStep(entry) == entry.kind \in {"shell", "sbt"}
IsFetch(entry) == entry.kind = "fetch"

StepsSpawned == SelectSeq(spawned, IsStep)
FetchesSpawned == SelectSeq(spawned, IsFetch)

\* The configured steps as one sequence: the shell command lines, then the
\* sbt runs.
PlannedSteps ==
    [k \in 1..(Len(config.shell_commands) + Len(config.sbt_runs)) |->
        IF k <= Len(config.shell_commands)
        THEN [kind |-> "shell", i |-> k]
        ELSE [kind |-> "sbt", i |-> k - Len(config.shell_commands)]]

AllStepsSucceeded ==
    /\ config # NoRecord
    /\ Len(StepsSpawned) = Len(PlannedSteps)
    /\ \A k \in DOMAIN StepsSpawned : StepsSpawned[k].rc = 0

Returned == pc \in {"failed", "write", "stdout", "done"}

\* C1: once generate_lockfile has returned or raised, the sandbox it created
\* is gone if keep_temp is false and still there if keep_temp is true, and
\* with keep_temp it is never removed.
SandboxReleased ==
    /\ (Returned /\ sandbox # "none") =>
        sandbox = IF keep_temp THEN "exists" ELSE "removed"
    /\ keep_temp => sandbox # "removed"

\* A run that a failed sbt run ended, without keep_temp: the sandbox is gone.
SandboxReleasedWitness ==
    /\ pc = "failed" /\ error = "RuntimeError"
    /\ spawned # <<>> /\ spawned[Len(spawned)].kind = "sbt"
    /\ ~keep_temp /\ sandbox = "removed"

\* C2: the steps are spawned in the configured order, each at most once and
\* only after every earlier one exited 0; nothing of the later phases starts
\* unless all of them exited 0; the first non-zero exit ends the run with an
\* error.
StepsInOrderNoRetry ==
    /\ config = NoRecord => spawned = <<>>
    /\ config # NoRecord =>
        LET steps == StepsSpawned
            n == Len(steps)
        IN  /\ n <= Len(PlannedSteps)
            /\ \A k \in 1..n :
                /\ steps[k].kind = PlannedSteps[k].kind
                /\ steps[k].i = PlannedSteps[k].i
                /\ k < n => steps[k].rc = 0
            /\ \A k \in DOMAIN spawned :
                IsStep(spawned[k]) => \A j \in 1..(k - 1) : IsStep(spawned[j])
            /\ (\/ FetchesSpawned # <<>>
                \/ pc \in {"bridges", "fetch", "ivycheck", "scan"}
                \/ lockfile # NoRecord
                \/ error \in {"AssertionError: Ivy artifacts",
                              "AssertionError: No Coursier artifacts found",
                              "ValueError: Unexpected path structure"})
                    => AllStepsSucceeded
            /\ (n > 0 /\ steps[n].rc # 0) =>
                /\ error = "RuntimeError"
                /\ pc \in {"finally", "failed"}
                /\ Len(spawned) = n

\* Two shell command lines and one sbt run exited 0, the next sbt run did
\* not, and the run ended there.
StepsInOrderNoRetryWitness ==
    /\ pc = "failed"
    /\ Len(spawned) = 4
    /\ spawned[1].kind = "shell" /\ spawned[2].kind = "shell"
    /\ spawned[3].kind = "sbt" /\ spawned[3].rc = 0
    /\ spawned[4].kind = "sbt" /\ spawned[4].rc = 1

\* C4: a run that ends in an error writes neither the lockfile nor stdout;
\* what is written is the manifest of a run whose every phase completed,
\* once to stdout and, unless --dry-run, once to the lockfile.
ManifestOnlyOnSuccess ==
    /\ error # "none" => outfile = <<>> /\ stdout = <<>>
    /\ pc = "failed" => error # "none"
    /\ Len(outfile) <= 1 /\ Len(stdout) <= 1
    /\ (outfile # <<>> \/ stdout # <<>>) =>
        /\ AllStepsSucceeded
        /\ lockfile # NoRecord
        /\ lockfile.artifacts # <<>>
        /\ \A k \in DOMAIN outfile : outfile[k] = JsonDumps(lockfile)
        /\ \A k \in DOMAIN stdout : stdout[k] = JsonDumps(lockfile)
    /\ pc = "done" =>
        /\ Len(stdout) = 1
        /\ Len(outfile) = IF dry_run THEN 0 ELSE 1

\* Every step exited 0 and the cache held no artifact: the run failed and
\* wrote nothing.
ManifestOnlyOnSuccessWitness ==
    /\ pc = "failed"
    /\ error = "AssertionError: No Coursier artifacts found"
    /\ AllStepsSucceeded
    /\ outfile = <<>> /\ stdout = <<>>

\* An artifact file as the Cache Scanner defines it, in the legacy cache.
LegacyArtifacts ==
    /\ ivy.exists
    /\ \E path \in ivy.files : Suffix(path) \in ArtifactSuffixes

\* C5: for a configuration of the documented structure, whatever the fetches
\* exit with, every fetch of every bridge pair and of every configured
\* artifact is made, in order, and the run goes on to the second phase; it
\* returns a manifest when the cache holds an artifact and the legacy cache
\* none.
FetchFailuresNonFatal ==
    (/\ StructurallyValid(doc)
     /\ AllStepsSucceeded
     /\ pc \in {"ivycheck", "scan", "finally", "failed", "write", "stdout", "done"})
    =>  LET planned == BridgeFetches(bridges)
                        \o ConfiguredFetches(config.fetch_artifacts)
        IN  /\ Len(FetchesSpawned) = Len(planned)
            /\ \A k \in DOMAIN planned :
                FetchesSpawned[k].argv = FetchArgv(planned[k])
            /\ (Returned /\ ~LegacyArtifacts /\ \E f \in cache : IsScanned(f)) =>
                /\ error = "none"
                /\ lockfile # NoRecord

\* Both fetches of a bridge pair, the fetch of a configured artifact and the
\* fetch of its classifier all failed, and the run wrote a manifest.
FetchFailuresNonFatalWitness ==
    /\ pc = "done"
    /\ Len(FetchesSpawned) = 4
    /\ \A k \in DOMAIN FetchesSpawned : FetchesSpawned[k].rc = 1
    /\ lockfile # NoRecord

\* C6: a document that is not of the documented structure is rejected by
\* Config.load: no Config is built from it, no sandbox is created and no
\* subprocess is spawned.
InvalidConfigRejectedAtLoad ==
    ~StructurallyValid(doc) =>
        /\ config = NoRecord
        /\ sandbox = "none"
        /\ spawned = <<>>

\* C7: the legacy-cache check fails the run exactly when the legacy cache
\* holds a .jar, .pom or .xml file at some depth, and then no manifest is
\* produced.
LegacyCheckExact ==
    /\ pc = "scan" => ~LegacyArtifacts
    /\ error = "AssertionError: Ivy artifacts" =>
        /\ LegacyArtifacts
        /\ lockfile = NoRecord
        /\ stdout = <<>> /\ outfile = <<>>

====
